---- MODULE Spec2Model ----
(***************************************************************************)
(* A model of tinybtree (src/btree.go): a B-tree of int64 keys and opaque  *)
(* values.  Nodes keep the fixed-size arrays of the source; Go's 0-based   *)
(* index i of an array is position i+1 of the TLA+ sequence, reached       *)
(* through At/Put.  A node is held by value: the pointer graph of the      *)
(* source is a tree (no node is shared between two live slots), so the     *)
(* value of a subtree stands for the node a pointer leads to.  A nil       *)
(* pointer is NilNode, the nil interface value is NilValue, and a nil      *)
(* pointer dereference (a Go panic) is a result with panic = TRUE.         *)
(***************************************************************************)
EXTENDS Integers, Sequences, FiniteSets, TLC

\* ------------------------------------------------------------------ constants
maxItems == 31
minItems == (maxItems * 40) \div 100

\* ------------------------------------------------------------------ data model
NilValue == [isNil |-> TRUE]
NilNode == [isNilNode |-> TRUE]

\* a non-nil interface{} value holding x
Val(x) == [v |-> x]

item(key, value) == [key |-> key, value |-> value]

\* item{}: the zero item
zeroItem == item(0, NilValue)

\* new(node)
newNode ==
  [numItems |-> 0,
   items |-> [j \in 1..maxItems |-> zeroItem],
   children |-> [j \in 1..(maxItems + 1) |-> NilNode]]

At(arr, i) == arr[i + 1]
Put(arr, i, x) == [arr EXCEPT ![i + 1] = x]

Min2(a, b) == IF a < b THEN a ELSE b

\* Go's copy(dst[a:], src[b:c]): min(len(dst)-a, c-b) elements, with memmove
\* semantics when dst and src are the same array.
copy(dst, a, src, b, c) ==
  LET n == Min2(Len(dst) - a, c - b)
  IN [j \in 1..Len(dst) |->
        IF j - 1 >= a /\ j - 1 < a + n THEN src[(j - 1 - a) + b + 1] ELSE dst[j]]

\* ------------------------------------------------------------------ find
RECURSIVE findLoop(_, _, _, _)
\* a faulty find: the search goes right only of items below the key (line 30
\* with > for >=)
findLoopStrict(n, key, i, j) ==
  IF i < j
  THEN LET h == i + ((j - i) \div 2)
       IN IF key > At(n.items, h).key
          THEN findLoop(n, key, h + 1, j)
          ELSE findLoop(n, key, i, h)
  ELSE i

findLoop(n, key, i, j) ==
  IF i < j
  THEN LET h == i + ((j - i) \div 2)
       IN IF key >= At(n.items, h).key
          THEN findLoop(n, key, h + 1, j)
          ELSE findLoop(n, key, i, h)
  ELSE i

find(n, key) ==
  LET i == findLoop(n, key, 0, n.numItems)
  IN IF i > 0 /\ At(n.items, i - 1).key >= key
     THEN [index |-> i - 1, found |-> TRUE]
     ELSE [index |-> i, found |-> FALSE]

\* ------------------------------------------------------------------ split
\* a faulty split: the median stays in the original node as well (lines 85-88
\* start one slot late)
splitKeepsMedian(n, height) ==
  LET half == maxItems \div 2
      r0 == newNode
      rItems == copy(r0.items, 0, n.items, half + 1, maxItems)
      rChildren == IF height > 0
                   THEN copy(r0.children, 0, n.children, half + 1, maxItems + 1)
                   ELSE r0.children
      lChildren == IF height > 0
                   THEN [j \in 1..(maxItems + 1) |->
                           IF j - 1 >= half + 1 THEN NilNode ELSE n.children[j]]
                   ELSE n.children
      lItems == [j \in 1..maxItems |->
                   IF j - 1 >= half + 1 THEN zeroItem ELSE n.items[j]]
  IN [left |-> [numItems |-> half + 1, items |-> lItems, children |-> lChildren],
      right |-> [numItems |-> half, items |-> rItems, children |-> rChildren],
      median |-> At(n.items, half)]

split(n, height) ==
  LET half == maxItems \div 2
      r0 == newNode
      rItems == copy(r0.items, 0, n.items, half + 1, maxItems)
      rChildren == IF height > 0
                   THEN copy(r0.children, 0, n.children, half + 1, maxItems + 1)
                   ELSE r0.children
      lChildren == IF height > 0
                   THEN [j \in 1..(maxItems + 1) |->
                           IF j - 1 >= half + 1 THEN NilNode ELSE n.children[j]]
                   ELSE n.children
      lItems == [j \in 1..maxItems |->
                   IF j - 1 >= half THEN zeroItem ELSE n.items[j]]
  IN [left |-> [numItems |-> half, items |-> lItems, children |-> lChildren],
      right |-> [numItems |-> half, items |-> rItems, children |-> rChildren],
      median |-> At(n.items, half)]

\* ------------------------------------------------------------------ set
\* the leaf loop "for j := n.numItems; j > i; j-- { n.items[j] = n.items[j-1] }"
RECURSIVE shiftRight(_, _, _)
shiftRight(items, j, i) ==
  IF j > i THEN shiftRight(Put(items, j, At(items, j - 1)), j - 1, i) ELSE items

setResult(n, prev, replaced, panic) ==
  [node |-> n, prev |-> prev, replaced |-> replaced, panic |-> panic]

\* copy(arr[a:], arr[b:c]) within one array
copyWithin(arr, a, b, c) == copy(arr, a, arr, b, c)

\* node.set, lines 113-118: the child at i was split into s.left, s.median and
\* s.right; the median and the right node enter n at i and i+1
insertSplit(n, i, s) ==
  [numItems |-> n.numItems + 1,
   items |-> Put(copyWithin(n.items, i + 1, i, maxItems), i, s.median),
   children |-> Put(copyWithin(Put(n.children, i, s.left), i + 1, i, maxItems + 1),
                    i + 1, s.right)]

\* node.set, lines 112-119: the child at i is full
splitChild(n, i, height) == insertSplit(n, i, split(At(n.children, i), height - 1))

\* n with c as its child at i
withChild(n, i, c) == [n EXCEPT !.children[i + 1] = c]

\* node.set, lines 114-117: items[i+1:], items[i] and children[i+1] are within
\* the arrays
splitInRange(n, i) == i < maxItems

\* a faulty set: a child that reaches maxItems items is not split (line 112)
setBelowNeverSplits(n, i, r, height) ==
  IF r.panic THEN setResult(n, NilValue, FALSE, TRUE)
  ELSE IF r.replaced THEN setResult(withChild(n, i, r.node), r.prev, TRUE, FALSE)
  ELSE setResult(withChild(n, i, r.node), r.prev, FALSE, FALSE)

\* node.set, lines 108-120: the child at i returned r
setBelow(n, i, r, height) ==
  IF r.panic THEN setResult(n, NilValue, FALSE, TRUE)
  ELSE IF r.replaced THEN setResult(withChild(n, i, r.node), r.prev, TRUE, FALSE)
  ELSE IF r.node.numItems = maxItems
  THEN IF splitInRange(n, i)
       THEN setResult(splitChild(withChild(n, i, r.node), i, height), r.prev, FALSE, FALSE)
       ELSE setResult(n, NilValue, FALSE, TRUE)
  ELSE setResult(withChild(n, i, r.node), r.prev, FALSE, FALSE)

\* node.set, lines 100-106: the leaf takes the new item at i
setLeaf(n, i, key, value) ==
  IF n.numItems >= maxItems
  THEN setResult(n, NilValue, FALSE, TRUE)
  ELSE setResult([n EXCEPT !.items = Put(shiftRight(n.items, n.numItems, i),
                                         i, item(key, value)),
                           !.numItems = n.numItems + 1],
                 NilValue, FALSE, FALSE)

RECURSIVE set(_, _, _, _)
\* a faulty set: it reads prev after it stored the new value (lines 96-97 swapped)
setAtPrevAfterStore(n, key, value, height, f) ==
  IF f.found
  THEN setResult([n EXCEPT !.items[f.index + 1].value = value], value, TRUE, FALSE)
  ELSE IF height = 0 THEN setLeaf(n, f.index, key, value)
  ELSE setBelow(n, f.index, set(At(n.children, f.index), key, value, height - 1),
                height)

\* a faulty set: the value of a key found is stored in the slot after the
\* key's (line 97)
setAtStoresNextSlot(n, key, value, height, f) ==
  IF f.found
  THEN setResult([n EXCEPT !.items[Min2(f.index + 2, maxItems)].value = value],
                 At(n.items, f.index).value, TRUE, FALSE)
  ELSE IF height = 0 THEN setLeaf(n, f.index, key, value)
  ELSE setBelow(n, f.index, set(At(n.children, f.index), key, value, height - 1),
                height)

\* node.set, lines 95-120: find returned f
setAt(n, key, value, height, f) ==
  IF f.found
  THEN setResult([n EXCEPT !.items[f.index + 1].value = value],
                 At(n.items, f.index).value, TRUE, FALSE)
  ELSE IF height = 0 THEN setLeaf(n, f.index, key, value)
  ELSE setBelow(n, f.index, set(At(n.children, f.index), key, value, height - 1),
                height)

set(n, key, value, height) ==
  IF n = NilNode THEN setResult(n, NilValue, FALSE, TRUE)
  ELSE setAt(n, key, value, height, find(n, key))

\* A tree handle: the fields of BTree.  The zero value is the empty tree.
emptyTree == [height |-> 0, root |-> NilNode, length |-> 0]

setReturn(tr, prev, replaced, panic) ==
  [tr |-> tr, prev |-> prev, replaced |-> replaced, panic |-> panic]

\* a faulty Set: the new root does not raise the height (line 65)
growRootKeepsHeight(tr, s) ==
  [height |-> tr.height,
   root |-> [newNode EXCEPT !.children[1] = s.left,
                            !.items[1] = s.median,
                            !.children[2] = s.right,
                            !.numItems = 1],
   length |-> tr.length + 1]

\* BTree.Set, lines 58-65: a new root over the two halves s of the old one
growRoot(tr, s) ==
  [height |-> tr.height + 1,
   root |-> [newNode EXCEPT !.children[1] = s.left,
                            !.items[1] = s.median,
                            !.children[2] = s.right,
                            !.numItems = 1],
   length |-> tr.length + 1]

\* a faulty Set: a root that reaches maxItems items is not split (line 57)
setRootNeverSplits(tr, r) ==
  IF r.panic THEN setReturn(tr, NilValue, FALSE, TRUE)
  ELSE IF r.replaced THEN setReturn([tr EXCEPT !.root = r.node], r.prev, TRUE, FALSE)
  ELSE setReturn([tr EXCEPT !.root = r.node, !.length = tr.length + 1],
                 r.prev, FALSE, FALSE)

\* a faulty Set: it counts a replaced key as a new one
setRootCountsReplace(tr, r) ==
  IF r.panic THEN setReturn(tr, NilValue, FALSE, TRUE)
  ELSE IF r.replaced
  THEN setReturn([tr EXCEPT !.root = r.node, !.length = tr.length + 1],
                 r.prev, TRUE, FALSE)
  ELSE IF r.node.numItems = maxItems
  THEN setReturn(growRoot(tr, split(r.node, tr.height)), r.prev, FALSE, FALSE)
  ELSE setReturn([tr EXCEPT !.root = r.node, !.length = tr.length + 1],
                 r.prev, FALSE, FALSE)

\* BTree.Set, lines 53-68: the root returned r
setRoot(tr, r) ==
  IF r.panic THEN setReturn(tr, NilValue, FALSE, TRUE)
  ELSE IF r.replaced THEN setReturn([tr EXCEPT !.root = r.node], r.prev, TRUE, FALSE)
  ELSE IF r.node.numItems = maxItems
  THEN setReturn(growRoot(tr, split(r.node, tr.height)), r.prev, FALSE, FALSE)
  ELSE setReturn([tr EXCEPT !.root = r.node, !.length = tr.length + 1],
                 r.prev, FALSE, FALSE)

\* BTree.Set
Set(tr, key, value) ==
  IF tr.root = NilNode
  THEN setReturn([height |-> tr.height,
                  root |-> [newNode EXCEPT !.items[1] = item(key, value),
                                           !.numItems = 1],
                  length |-> 1],
                 NilValue, FALSE, FALSE)
  ELSE setRoot(tr, set(tr.root, key, value, tr.height))

\* ------------------------------------------------------------------ get
RECURSIVE get(_, _, _)
\* a faulty get: it looks the key up in the node it is given and never descends
getNoDescent(n, key, height) ==
  IF n = NilNode THEN [value |-> NilValue, gotten |-> FALSE, panic |-> TRUE]
  ELSE LET f == find(n, key)
       IN IF f.found
          THEN [value |-> At(n.items, f.index).value, gotten |-> TRUE, panic |-> FALSE]
          ELSE [value |-> NilValue, gotten |-> FALSE, panic |-> FALSE]

get(n, key, height) ==
  IF n = NilNode THEN [value |-> NilValue, gotten |-> FALSE, panic |-> TRUE]
  ELSE
  LET f == find(n, key)
  IN IF f.found
     THEN [value |-> At(n.items, f.index).value, gotten |-> TRUE, panic |-> FALSE]
     ELSE IF height = 0
     THEN [value |-> NilValue, gotten |-> FALSE, panic |-> FALSE]
     ELSE get(At(n.children, f.index), key, height - 1)

\* BTree.Get
Get(tr, key) ==
  IF tr.root = NilNode
  THEN [value |-> NilValue, gotten |-> FALSE, panic |-> FALSE]
  ELSE get(tr.root, key, tr.height)

\* BTree.Len
TreeLen(tr) == tr.length

\* ------------------------------------------------------------------ delete
\* A 64-bit integer as its bits in two's complement, the sign bit first.
Int64Width == 64

\* ^uint64(0): every bit set
allOnes == [j \in 1..Int64Width |-> 1]

\* b >> 1 on an unsigned value: a zero enters at the top
shiftRightOne(b) == [j \in 1..Int64Width |-> IF j = 1 THEN 0 ELSE b[j - 1]]

\* ^b: every bit turned
complement(b) == [j \in 1..Int64Width |-> 1 - b[j]]

\* b + 1, wrapping at the width
plusOne(b) ==
  IF \A j \in 1..Int64Width : b[j] = 1
  THEN [j \in 1..Int64Width |-> 0]
  ELSE LET k == CHOOSE m \in 1..Int64Width :
                  b[m] = 0 /\ \A j \in (m + 1)..Int64Width : b[j] = 1
       IN [j \in 1..Int64Width |-> IF j < k THEN b[j] ELSE IF j = k THEN 1 ELSE 0]

\* -b on an int64: the complement plus one
negate(b) == plusOne(complement(b))

\* The reserved key passed along with max = TRUE: -int64(^uint64(0) >> 1).
\* In extract-maximum mode the key is never compared.
freeKey == negate(shiftRightOne(allOnes))

deleteResult(n, prev, deleted, panic) ==
  [node |-> n, prev |-> prev, deleted |-> deleted, panic |-> panic]

\* node.delete, lines 242-255: merge left + item + right
mergeChildren(n, i, height) ==
  LET l == At(n.children, i)
      r == At(n.children, i + 1)
      li1 == Put(l.items, l.numItems, At(n.items, i))
      li2 == copy(li1, l.numItems + 1, r.items, 0, r.numItems)
      lc == IF height > 1
            THEN copy(l.children, l.numItems + 1, r.children, 0, r.numItems + 1)
            ELSE l.children
      l2 == [numItems |-> l.numItems + r.numItems + 1, items |-> li2, children |-> lc]
      c0 == Put(n.children, i, l2)
      it1 == copy(n.items, i, n.items, i + 1, n.numItems)
      c1 == copy(c0, i + 1, c0, i + 2, n.numItems + 1)
  IN [numItems |-> n.numItems - 1,
      items |-> Put(it1, n.numItems, zeroItem),
      children |-> Put(c1, n.numItems + 1, NilNode)]

\* node.delete, lines 257-275: move left -> right
moveLeftToRight(n, i, height) ==
  LET l == At(n.children, i)
      r == At(n.children, i + 1)
      ri1 == copy(r.items, 1, r.items, 0, r.numItems)
      rc1 == IF height > 1
             THEN copy(r.children, 1, r.children, 0, r.numItems + 1)
             ELSE r.children
      ri2 == Put(ri1, 0, At(n.items, i))
      rc2 == IF height > 1 THEN Put(rc1, 0, At(l.children, l.numItems)) ELSE rc1
      r2 == [numItems |-> r.numItems + 1, items |-> ri2, children |-> rc2]
      sep == At(l.items, l.numItems - 1)
      li1 == Put(l.items, l.numItems - 1, zeroItem)
      lc1 == IF height > 1 THEN Put(l.children, l.numItems, NilNode) ELSE l.children
      l2 == [numItems |-> l.numItems - 1, items |-> li1, children |-> lc1]
  IN [n EXCEPT !.items = Put(n.items, i, sep),
               !.children = Put(Put(n.children, i, l2), i + 1, r2)]

\* a faulty move right -> left: the separator in the parent is not replaced
\* (line 284)
moveRightToLeftKeepsSeparator(n, i, height) ==
  LET l == At(n.children, i)
      r == At(n.children, i + 1)
      li1 == Put(l.items, l.numItems, At(n.items, i))
      lc1 == IF height > 1
             THEN Put(l.children, l.numItems + 1, At(r.children, 0))
             ELSE l.children
      l2 == [numItems |-> l.numItems + 1, items |-> li1, children |-> lc1]
      ri1 == copy(r.items, 0, r.items, 1, r.numItems)
      rc1 == IF height > 1
             THEN copy(r.children, 0, r.children, 1, r.numItems + 1)
             ELSE r.children
      r2 == [numItems |-> r.numItems - 1, items |-> ri1, children |-> rc1]
  IN [n EXCEPT !.children = Put(Put(n.children, i, l2), i + 1, r2)]

\* node.delete, lines 277-291: move right -> left
moveRightToLeft(n, i, height) ==
  LET l == At(n.children, i)
      r == At(n.children, i + 1)
      li1 == Put(l.items, l.numItems, At(n.items, i))
      lc1 == IF height > 1
             THEN Put(l.children, l.numItems + 1, At(r.children, 0))
             ELSE l.children
      l2 == [numItems |-> l.numItems + 1, items |-> li1, children |-> lc1]
      sep == At(r.items, 0)
      ri1 == copy(r.items, 0, r.items, 1, r.numItems)
      rc1 == IF height > 1
             THEN copy(r.children, 0, r.children, 1, r.numItems + 1)
             ELSE r.children
      r2 == [numItems |-> r.numItems - 1, items |-> ri1, children |-> rc1]
  IN [n EXCEPT !.items = Put(n.items, i, sep),
               !.children = Put(Put(n.children, i, l2), i + 1, r2)]

\* a faulty rebalance: it merges also when the counts plus one equal maxItems
rebalanceMergesUpToMaxItems(n, i0, height) ==
  IF At(n.children, i0).numItems < minItems
  THEN LET i == IF i0 = n.numItems THEN i0 - 1 ELSE i0
           l == At(n.children, i)
           r == At(n.children, i + 1)
       IN IF l.numItems + r.numItems + 1 <= maxItems
          THEN mergeChildren(n, i, height)
          ELSE IF l.numItems > r.numItems
          THEN moveLeftToRight(n, i, height)
          ELSE moveRightToLeft(n, i, height)
  ELSE n

\* a faulty rebalance: the pair is the child before the underflowing one and
\* the underflowing one, whenever there is a child before it
rebalanceWithLeftSibling(n, i0, height) ==
  IF At(n.children, i0).numItems < minItems
  THEN LET i == IF i0 > 0 THEN i0 - 1 ELSE i0
           l == At(n.children, i)
           r == At(n.children, i + 1)
       IN IF l.numItems + r.numItems + 1 < maxItems
          THEN mergeChildren(n, i, height)
          ELSE IF l.numItems > r.numItems
          THEN moveLeftToRight(n, i, height)
          ELSE moveRightToLeft(n, i, height)
  ELSE n

\* a faulty rebalance: a borrow always moves an item from left to right
rebalanceBorrowsFromLeftOnly(n, i0, height) ==
  IF At(n.children, i0).numItems < minItems
  THEN LET i == IF i0 = n.numItems THEN i0 - 1 ELSE i0
           l == At(n.children, i)
           r == At(n.children, i + 1)
       IN IF l.numItems + r.numItems + 1 < maxItems
          THEN mergeChildren(n, i, height)
          ELSE moveLeftToRight(n, i, height)
  ELSE n

\* node.delete, lines 237-293: the child at i0 may have underflowed
rebalance(n, i0, height) ==
  IF At(n.children, i0).numItems < minItems
  THEN LET i == IF i0 = n.numItems THEN i0 - 1 ELSE i0
           l == At(n.children, i)
           r == At(n.children, i + 1)
       IN IF l.numItems + r.numItems + 1 < maxItems
          THEN mergeChildren(n, i, height)
          ELSE IF l.numItems > r.numItems
          THEN moveLeftToRight(n, i, height)
          ELSE moveRightToLeft(n, i, height)
  ELSE n

\* node.delete, lines 237-292: the children the code reads are present and its
\* index and slice expressions are within the arrays and the slices
rebalanceInRange(n, i0) ==
  At(n.children, i0).numItems < minItems =>
    LET i == IF i0 = n.numItems THEN i0 - 1 ELSE i0
    IN /\ i >= 0
       /\ i + 1 <= maxItems
       /\ At(n.children, i) # NilNode
       /\ At(n.children, i + 1) # NilNode
       /\ IF At(n.children, i).numItems + At(n.children, i + 1).numItems + 1 < maxItems
          THEN i + 1 <= n.numItems /\ n.numItems < maxItems
          ELSE IF At(n.children, i).numItems > At(n.children, i + 1).numItems
          THEN At(n.children, i).numItems >= 1
          ELSE At(n.children, i).numItems < maxItems /\ At(n.children, i + 1).numItems >= 1

\* node.delete, lines 237-294: the child at i lost an item; prev is returned
rebalanced(n, i, height, prev) ==
  IF rebalanceInRange(n, i)
  THEN deleteResult(rebalance(n, i, height), prev, TRUE, FALSE)
  ELSE deleteResult(n, zeroItem, FALSE, TRUE)

\* node.delete, lines 208-219: the leaf case
deleteLeaf(n, i, found) ==
  IF found
  THEN LET it1 == copy(n.items, i, n.items, i + 1, n.numItems)
       IN deleteResult([numItems |-> n.numItems - 1,
                        items |-> Put(it1, n.numItems - 1, zeroItem),
                        children |-> Put(n.children, n.numItems, NilNode)],
                       At(n.items, i), TRUE, FALSE)
  ELSE deleteResult(n, zeroItem, FALSE, FALSE)

RECURSIVE delete(_, _, _, _)
\* a faulty delete: in a branch it returns the item that took the key's place
\* (line 226 after line 228)
deleteSwapReturnsMax(n, i, d, height) ==
  IF d.panic THEN deleteResult(n, zeroItem, FALSE, TRUE)
  ELSE rebalanced([n EXCEPT !.children[i + 1] = d.node, !.items[i + 1] = d.prev],
                  i, height, d.prev)

\* node.delete, lines 226-229 and 234-294: the key is items[i] of a branch; the
\* child at i gave up its greatest item d.prev, which takes the place of the key
deleteSwap(n, i, d, height) ==
  IF d.panic THEN deleteResult(n, zeroItem, FALSE, TRUE)
  ELSE rebalanced([n EXCEPT !.children[i + 1] = d.node, !.items[i + 1] = d.prev],
                  i, height, At(n.items, i))

\* node.delete, lines 224, 232 and 234-294: the child at i returned d
deleteBelow(n, i, d, height) ==
  IF d.panic THEN deleteResult(n, zeroItem, FALSE, TRUE)
  ELSE IF ~d.deleted
  THEN deleteResult([n EXCEPT !.children[i + 1] = d.node], d.prev, FALSE, FALSE)
  ELSE rebalanced([n EXCEPT !.children[i + 1] = d.node], i, height, d.prev)

\* a faulty delete: a branch asked for its greatest item does not step to its
\* last child (line 223)
deleteAtMaxNoStep(n, max, key, height, f) ==
  IF height = 0
  THEN IF f.found /\ f.index < 0
       THEN deleteResult(n, zeroItem, FALSE, TRUE)
       ELSE deleteLeaf(n, f.index, f.found)
  ELSE IF f.found /\ max
  THEN deleteBelow(n, f.index,
                   delete(At(n.children, f.index), TRUE, freeKey, height - 1),
                   height)
  ELSE IF f.found
  THEN deleteSwap(n, f.index,
                  delete(At(n.children, f.index), TRUE, freeKey, height - 1),
                  height)
  ELSE deleteBelow(n, f.index,
                   delete(At(n.children, f.index), max, key, height - 1),
                   height)

\* node.delete, lines 208-294: f is (i, found) of lines 202-207
deleteAt(n, max, key, height, f) ==
  IF height = 0
  THEN IF f.found /\ f.index < 0
       THEN deleteResult(n, zeroItem, FALSE, TRUE)
       ELSE deleteLeaf(n, f.index, f.found)
  ELSE IF f.found /\ max
  THEN deleteBelow(n, f.index + 1,
                   delete(At(n.children, f.index + 1), TRUE, freeKey, height - 1),
                   height)
  ELSE IF f.found
  THEN deleteSwap(n, f.index,
                  delete(At(n.children, f.index), TRUE, freeKey, height - 1),
                  height)
  ELSE deleteBelow(n, f.index,
                   delete(At(n.children, f.index), max, key, height - 1),
                   height)

delete(n, max, key, height) ==
  IF n = NilNode THEN deleteResult(n, zeroItem, FALSE, TRUE)
  ELSE deleteAt(n, max, key, height,
                IF max THEN [index |-> n.numItems - 1, found |-> TRUE]
                ELSE find(n, key))

deleteReturn(tr, prev, deleted, panic) ==
  [tr |-> tr, prev |-> prev, deleted |-> deleted, panic |-> panic]

\* a faulty Delete: it does not clear the root of a tree that lost its last
\* item (lines 192-195)
shrinkRootNoReset(tr, n) ==
  IF n.numItems = 0
  THEN [height |-> tr.height - 1, root |-> At(n.children, 0), length |-> tr.length - 1]
  ELSE [height |-> tr.height, root |-> n, length |-> tr.length - 1]

\* a faulty Delete: the child that replaces a root without items does not
\* lower the height (line 189)
shrinkRootKeepsHeight(tr, n) ==
  IF tr.length - 1 = 0
  THEN [height |-> 0, root |-> NilNode, length |-> tr.length - 1]
  ELSE IF n.numItems = 0
  THEN [height |-> tr.height, root |-> At(n.children, 0), length |-> tr.length - 1]
  ELSE [height |-> tr.height, root |-> n, length |-> tr.length - 1]

\* a faulty Delete: a root without items is not replaced by its child
\* (lines 187-190)
shrinkRootKeepsEmptyRoot(tr, n) ==
  IF tr.length - 1 = 0
  THEN [height |-> 0, root |-> NilNode, length |-> tr.length - 1]
  ELSE [height |-> tr.height, root |-> n, length |-> tr.length - 1]

\* BTree.Delete, lines 187-195: the root lost an item
shrinkRoot(tr, n) ==
  IF tr.length - 1 = 0
  THEN [height |-> 0, root |-> NilNode, length |-> tr.length - 1]
  ELSE IF n.numItems = 0
  THEN [height |-> tr.height - 1, root |-> At(n.children, 0), length |-> tr.length - 1]
  ELSE [height |-> tr.height, root |-> n, length |-> tr.length - 1]

\* a faulty Delete: it does not return early when nothing was deleted (lines 183-185)
deleteRootNoEarlyReturn(tr, d) ==
  IF d.panic THEN deleteReturn(tr, NilValue, FALSE, TRUE)
  ELSE deleteReturn(shrinkRoot(tr, d.node), d.prev.value, d.deleted, FALSE)

\* BTree.Delete, lines 182-196: the root returned d
deleteRoot(tr, d) ==
  IF d.panic THEN deleteReturn(tr, NilValue, FALSE, TRUE)
  ELSE IF ~d.deleted
  THEN deleteReturn([tr EXCEPT !.root = d.node], NilValue, FALSE, FALSE)
  ELSE deleteReturn(shrinkRoot(tr, d.node), d.prev.value, TRUE, FALSE)

\* BTree.Delete
Delete(tr, key) ==
  IF tr.root = NilNode THEN deleteReturn(tr, NilValue, FALSE, FALSE)
  ELSE deleteRoot(tr, delete(tr.root, FALSE, key, tr.height))

\* ------------------------------------------------------------------ visitors
\* The iter callback of a traversal, with the state its closure keeps: out is
\* every call it received, limit the number of calls it answers true (-1: it
\* always answers true), late the calls it received after answering false.
\* panic is set by a traversal that dereferences a nil node and unwinds.
visitor(limit) == [out |-> <<>>, limit |-> limit, stopped |-> FALSE,
                   late |-> 0, panic |-> FALSE]

iter(it, key, value) ==
  LET cont == it.limit < 0 \/ Len(it.out) < it.limit
  IN [it |-> [it EXCEPT !.out = Append(@, item(key, value)),
                        !.late = @ + (IF it.stopped THEN 1 ELSE 0),
                        !.stopped = ~cont],
      ok |-> cont]

walk(it, ok) == [it |-> it, ok |-> ok]
nilDeref(it) == [it |-> [it EXCEPT !.panic = TRUE], ok |-> FALSE]

\* ------------------------------------------------------------------ scan
RECURSIVE scan(_, _, _)
RECURSIVE scanLoop(_, _, _, _)
\* a faulty scan loop: it leaves out the last child (line 149)
scanLoopNoLastChild(n, it, height, i) ==
  IF i >= n.numItems THEN walk(it, TRUE)
  ELSE LET c == IF height = 0 THEN walk(it, TRUE)
                ELSE scan(At(n.children, i), it, height - 1)
       IN IF ~c.ok THEN c
          ELSE LET r == iter(c.it, At(n.items, i).key, At(n.items, i).value)
               IN IF ~r.ok THEN r ELSE scanLoop(n, r.it, height, i + 1)

\* the loop over i of node.scan, from index i on
scanLoop(n, it, height, i) ==
  IF i >= n.numItems
  THEN IF height = 0 THEN walk(it, TRUE)
       ELSE scan(At(n.children, n.numItems), it, height - 1)
  ELSE LET c == IF height = 0 THEN walk(it, TRUE)
                ELSE scan(At(n.children, i), it, height - 1)
       IN IF ~c.ok THEN c
          ELSE LET r == iter(c.it, At(n.items, i).key, At(n.items, i).value)
               IN IF ~r.ok THEN r ELSE scanLoop(n, r.it, height, i + 1)

scan(n, it, height) ==
  IF n = NilNode THEN nilDeref(it) ELSE scanLoop(n, it, height, 0)

\* a faulty Scan: it does not test the root for nil (line 125)
ScanNoNilTest(tr, it) == scan(tr.root, it, tr.height).it

\* BTree.Scan
Scan(tr, it) ==
  IF tr.root # NilNode THEN scan(tr.root, it, tr.height).it ELSE it

\* ------------------------------------------------------------------ reverse
RECURSIVE reverse(_, _, _)
RECURSIVE reverseLoop(_, _, _, _)
\* a faulty reverse loop: a child that stopped only ends its own walk
\* (lines 358-360 without the return)
reverseLoopGoesOn(n, it, height, i) ==
  IF i < 0 THEN walk(it, TRUE)
  ELSE LET r == iter(it, At(n.items, i).key, At(n.items, i).value)
       IN IF ~r.ok THEN r
          ELSE LET c == IF height = 0 THEN walk(r.it, TRUE)
                        ELSE reverse(At(n.children, i), r.it, height - 1)
               IN reverseLoop(n, c.it, height, i - 1)

\* the loop over i of node.reverse, from index i down
reverseLoop(n, it, height, i) ==
  IF i < 0 THEN walk(it, TRUE)
  ELSE LET r == iter(it, At(n.items, i).key, At(n.items, i).value)
       IN IF ~r.ok THEN r
          ELSE LET c == IF height = 0 THEN walk(r.it, TRUE)
                        ELSE reverse(At(n.children, i), r.it, height - 1)
               IN IF ~c.ok THEN c ELSE reverseLoop(n, c.it, height, i - 1)

reverse(n, it, height) ==
  IF n = NilNode THEN nilDeref(it)
  ELSE IF height = 0 THEN reverseLoop(n, it, height, n.numItems - 1)
  ELSE LET c == reverse(At(n.children, n.numItems), it, height - 1)
       IN IF ~c.ok THEN c ELSE reverseLoop(n, c.it, height, n.numItems - 1)

\* BTree.Reverse
Reverse(tr, it) ==
  IF tr.root # NilNode THEN reverse(tr.root, it, tr.height).it ELSE it

\* ------------------------------------------------------------------ ascend
RECURSIVE ascendLoop(_, _, _, _)
\* the loop "for ; i < n.numItems; i++" of node.ascend
ascendLoop(n, it, height, i) ==
  IF i >= n.numItems THEN walk(it, TRUE)
  ELSE LET r == iter(it, At(n.items, i).key, At(n.items, i).value)
       IN IF ~r.ok THEN r
          ELSE LET c == IF height > 0
                        THEN scan(At(n.children, i + 1), r.it, height - 1)
                        ELSE walk(r.it, TRUE)
               IN IF ~c.ok THEN c ELSE ascendLoop(n, c.it, height, i + 1)

RECURSIVE ascend(_, _, _, _)
\* a faulty ascend: it does not descend into the child at i (lines 313-319)
ascendNoDescent(n, pivot, it, height) ==
  IF n = NilNode THEN nilDeref(it)
  ELSE ascendLoop(n, it, height, find(n, pivot).index)

ascend(n, pivot, it, height) ==
  IF n = NilNode THEN nilDeref(it)
  ELSE LET f == find(n, pivot)
           c == IF ~f.found /\ height > 0
                THEN ascend(At(n.children, f.index), pivot, it, height - 1)
                ELSE walk(it, TRUE)
       IN IF ~c.ok THEN c ELSE ascendLoop(n, c.it, height, f.index)

\* BTree.Ascend
Ascend(tr, pivot, it) ==
  IF tr.root # NilNode THEN ascend(tr.root, pivot, it, tr.height).it ELSE it

\* BTree.GreaterOrEqual
GreaterOrEqual(tr, pivot, it) ==
  IF tr.root # NilNode THEN ascend(tr.root, pivot, it, tr.height).it ELSE it

\* ------------------------------------------------------------------ descend
RECURSIVE descendLoop(_, _, _, _)
\* the loop "for ; i >= 0; i--" of node.descend
descendLoop(n, it, height, i) ==
  IF i < 0 THEN walk(it, TRUE)
  ELSE LET r == iter(it, At(n.items, i).key, At(n.items, i).value)
       IN IF ~r.ok THEN r
          ELSE LET c == IF height > 0
                        THEN reverse(At(n.children, i), r.it, height - 1)
                        ELSE walk(r.it, TRUE)
               IN IF ~c.ok THEN c ELSE descendLoop(n, c.it, height, i - 1)

RECURSIVE descend(_, _, _, _)
\* a faulty descend: it does not step back from the insertion point (line 387)
descendNoStepBack(n, pivot, it, height) ==
  IF n = NilNode THEN nilDeref(it)
  ELSE LET f == find(n, pivot)
           c == IF ~f.found /\ height > 0
                THEN descend(At(n.children, f.index), pivot, it, height - 1)
                ELSE walk(it, TRUE)
       IN IF ~c.ok THEN c ELSE descendLoop(n, c.it, height, f.index)

descend(n, pivot, it, height) ==
  IF n = NilNode THEN nilDeref(it)
  ELSE LET f == find(n, pivot)
           c == IF ~f.found /\ height > 0
                THEN descend(At(n.children, f.index), pivot, it, height - 1)
                ELSE walk(it, TRUE)
           i == IF ~f.found THEN f.index - 1 ELSE f.index
       IN IF ~c.ok THEN c ELSE descendLoop(n, c.it, height, i)

\* BTree.Descend
Descend(tr, pivot, it) ==
  IF tr.root # NilNode THEN descend(tr.root, pivot, it, tr.height).it ELSE it

\* BTree.LessOrEqual
LessOrEqual(tr, pivot, it) ==
  IF tr.root # NilNode THEN descend(tr.root, pivot, it, tr.height).it ELSE it

\* ------------------------------------------------------------------ getOrNearest
nearest(key, value, panic) == [key |-> key, value |-> value, panic |-> panic]

\* "return x.items[i].key, x.items[i].value"
nearestItem(it) == nearest(it.key, it.value, FALSE)

\* node.getOrNearest, lines 475-489: c is the child at i, cf what c.find returned
nearestChild(n, i, c, cf) ==
  IF cf.found THEN nearestItem(At(c.items, cf.index))
  ELSE IF cf.index > 0 THEN nearestItem(At(c.items, cf.index - 1))
  ELSE IF i > 0 THEN nearestItem(At(n.items, i - 1))
  ELSE nearest(0, NilValue, FALSE)

\* node.getOrNearest, lines 473-474
nearestIn(n, i, c, key) ==
  IF c = NilNode THEN nearest(0, NilValue, TRUE)
  ELSE nearestChild(n, i, c, find(c, key))

RECURSIVE getOrNearest(_, _, _)
\* node.getOrNearest, lines 457-492: find returned f
nearestAt(n, key, height, f) ==
  IF f.found THEN nearestItem(At(n.items, f.index))
  ELSE IF height = 0 /\ f.index > 0 THEN nearestItem(At(n.items, f.index - 1))
  ELSE IF height = 1 THEN nearestIn(n, f.index, At(n.children, f.index), key)
  ELSE getOrNearest(At(n.children, f.index), key, height - 1)

getOrNearest(n, key, height) ==
  IF n = NilNode THEN nearest(0, NilValue, TRUE)
  ELSE nearestAt(n, key, height, find(n, key))

\* BTree.GetOrNearest
GetOrNearest(tr, key) ==
  IF tr.root = NilNode THEN nearest(0, NilValue, FALSE)
  ELSE getOrNearest(tr.root, key, tr.height)

\* ------------------------------------------------------------------ next, prev
\* a faulty callback of Next and Prev: it keeps the item of its first call
\* ("if i == 0")
keptFirst(it) ==
  IF Len(it.out) >= 1
  THEN nearest(it.out[1].key, it.out[1].value, it.panic)
  ELSE nearest(0, NilValue, it.panic)

\* What the callback of Next and Prev (lines 422-430) leaves in key and value:
\* it answers true to its first call, and keeps the item of a later call and
\* answers false; with fewer than two calls key and value stay zero.
kept(it) ==
  IF Len(it.out) >= 2
  THEN nearest(it.out[Len(it.out)].key, it.out[Len(it.out)].value, it.panic)
  ELSE nearest(0, NilValue, it.panic)

\* a Next that returns the first item above the pivot, whether or not the
\* pivot is stored
successorOf(it, pivot) ==
  IF Len(it.out) >= 1 /\ it.out[1].key # pivot
  THEN nearest(it.out[1].key, it.out[1].value, it.panic)
  ELSE kept(it)
TreeNextSuccessor(tr, pivot) == successorOf(GreaterOrEqual(tr, pivot, visitor(1)), pivot)

\* BTree.Next
TreeNext(tr, pivot) == kept(GreaterOrEqual(tr, pivot, visitor(1)))

\* BTree.Prev
TreePrev(tr, pivot) == kept(LessOrEqual(tr, pivot, visitor(1)))

\* ------------------------------------------------------------------ the driver
\* The tree is driven the way the tests of the repository drive it: a loop
\* of Set calls loads keys in ascending or in descending order (mode "load";
\* TestBTreeNearest: even keys, value = key), and then single calls follow.
\* The mutating calls after the load take their key from a window of keys
\* around a key of the root node (mode "window"), or remove the smallest or
\* the greatest stored key (modes "drainMin" and "drainMax", the delete loops
\* of TestBTree).

\* the step of the load loop: "i += 2"
Stride == 2
\* half the number of keys of a window
WinHalf == 4
\* a tree of at most this many items takes any key of the window in any order
SmallTree == 3
\* the longest run of deletions of a drain
MaxDrain == 70

\* the value the load loop stores for a key: tr.Set(i, i)
LoadVal(k) == Val(k)
\* a second value for a key, to tell a replaced value from the loaded one
OtherVal(k) == Val(0 - k - 1)

\* ------------------------------------------------------------------ load sizes
\* numbers of keys a load loop stores
\* a root leaf one item short of splitting
FullLeaf == maxItems - 1
\* three leaves of maxItems/2 items each under a root of two items
ThreeLeaves == maxItems + (maxItems \div 2) + 1
\* the keys of TestBTreeNearest: "i < 200; i += 2"
NearestLoad == 200 \div Stride
\* height 1, the root and its last leaf one item short of splitting
FullRoot == maxItems + (maxItems - 2) * ((maxItems \div 2) + 1) + (maxItems \div 2)
\* height 2, one key in the root
TwoLevels == maxItems + (maxItems + 3) * ((maxItems \div 2) + 1)

\* The runs: a load, and what follows it.  A window lies around the first or
\* the last key of the root node, with its stored keys below or above that key.
Runs ==
  {[kind |-> "window", n |-> 0, desc |-> FALSE, at |-> "first", side |-> "below"],
   [kind |-> "window", n |-> FullLeaf, desc |-> FALSE, at |-> "last", side |-> "below"],
   [kind |-> "window", n |-> ThreeLeaves, desc |-> FALSE, at |-> "first", side |-> "below"],
   [kind |-> "window", n |-> ThreeLeaves, desc |-> FALSE, at |-> "last", side |-> "above"],
   [kind |-> "window", n |-> NearestLoad, desc |-> FALSE, at |-> "last", side |-> "below"],
   [kind |-> "window", n |-> FullRoot, desc |-> FALSE, at |-> "last", side |-> "below"],
   [kind |-> "window", n |-> FullRoot, desc |-> FALSE, at |-> "first", side |-> "below"],
   [kind |-> "window", n |-> TwoLevels, desc |-> FALSE, at |-> "first", side |-> "below"],
   [kind |-> "window", n |-> TwoLevels, desc |-> FALSE, at |-> "first", side |-> "above"],
   [kind |-> "drainMin", n |-> FullLeaf, desc |-> FALSE, at |-> "none", side |-> "none"],
   [kind |-> "drainMin", n |-> ThreeLeaves, desc |-> FALSE, at |-> "none", side |-> "none"],
   [kind |-> "drainMax", n |-> ThreeLeaves, desc |-> FALSE, at |-> "none", side |-> "none"],
   [kind |-> "drainMin", n |-> TwoLevels, desc |-> FALSE, at |-> "none", side |-> "none"],
   [kind |-> "drainMax", n |-> TwoLevels, desc |-> TRUE, at |-> "none", side |-> "none"]}

\* ------------------------------------------------------------------ state
\* root, height, length: the fields of the BTree
\* ref: the map the tests keep beside the tree, as a list of items sorted by key
\* last: the call made last and what it returned, until the caller drops it
\* mode: the run in progress
VARIABLES root, height, length, ref, last, mode

vars == <<root, height, length, ref, last, mode>>

tree == [height |-> height, root |-> root, length |-> length]

\* ------------------------------------------------------------------ reference map
refRank(r, k) == Cardinality({j \in 1..Len(r) : r[j].key < k})

refHas(r, k) ==
  LET p == refRank(r, k)
  IN p < Len(r) /\ r[p + 1].key = k

refGet(r, k) ==
  LET p == refRank(r, k)
  IN IF p < Len(r) /\ r[p + 1].key = k THEN r[p + 1].value ELSE NilValue

refPut(r, k, v) ==
  LET p == refRank(r, k)
  IN IF p < Len(r) /\ r[p + 1].key = k
     THEN [r EXCEPT ![p + 1] = item(k, v)]
     ELSE [j \in 1..(Len(r) + 1) |->
             IF j <= p THEN r[j] ELSE IF j = p + 1 THEN item(k, v) ELSE r[j - 1]]

refDel(r, k) ==
  LET p == refRank(r, k)
  IN IF p < Len(r) /\ r[p + 1].key = k
     THEN [j \in 1..(Len(r) - 1) |-> IF j <= p THEN r[j] ELSE r[j + 1]]
     ELSE r

refLoaded(n) == [j \in 1..n |-> item(Stride * (j - 1), LoadVal(Stride * (j - 1)))]

refRev(r) == [j \in 1..Len(r) |-> r[Len(r) + 1 - j]]

\* ------------------------------------------------------------------ inputs
Window(c, side) ==
  IF side = "below"
  THEN {c - Stride * j : j \in 0..(WinHalf - 1)} \cup {c + Stride * j - 1 : j \in 1..WinHalf}
  ELSE {c + Stride * j : j \in 1..WinHalf} \cup {c - Stride * j + 1 : j \in 1..WinHalf}

Center(tr, at) ==
  IF tr.root = NilNode THEN 0
  ELSE IF at = "first" THEN At(tr.root.items, 0).key
  ELSE At(tr.root.items, tr.root.numItems - 1).key

windowMode(n, c, side) ==
  [kind |-> "window", n |-> n, center |-> c, side |-> side, left |-> 0]

loadMode(n, desc) ==
  [kind |-> "load", n |-> n, center |-> 0, side |-> IF desc THEN "desc" ELSE "asc",
   left |-> 0]

StartMode(r, tr) ==
  IF r.kind = "window" THEN windowMode(r.n, Center(tr, r.at), r.side)
  ELSE [kind |-> r.kind, n |-> r.n, center |-> 0, side |-> "none", left |-> MaxDrain]

\* the greatest number of keys a load stores
MaxLoad == TwoLevels

\* the key of the next call of the load loop
loadKey == IF mode.side = "desc" THEN Stride * (MaxLoad - 1 - mode.n) ELSE Stride * mode.n

\* k is one of the keys the load loop stored
loaded(k) == k % Stride = 0 /\ 0 <= k /\ k < Stride * mode.n

offStride == {k \in Window(mode.center, mode.side) : ~loaded(k)}

Dist(k) == IF k < mode.center THEN mode.center - k ELSE k - mode.center

\* keys of the window that a Set may take: a stored key (replace or put back),
\* or the new key nearest to the centre
SetKeys ==
  IF mode.kind = "load" THEN (IF mode.n < MaxLoad THEN {loadKey} ELSE {})
  ELSE IF mode.kind = "window"
  THEN {k \in Window(mode.center, mode.side) :
          \/ refHas(ref, k)
          \/ /\ ~loaded(k)
             /\ \A j \in offStride : Dist(j) < Dist(k) => refHas(ref, j)
          \/ length < SmallTree}
  ELSE {}

\* keys a Delete may take: in a window a loaded key, present or absent, or a
\* key not stored; in a drain the smallest or the greatest stored key
DeleteKeys ==
  IF mode.kind = "load" THEN {}
  ELSE IF mode.kind = "window"
  THEN {k \in Window(mode.center, mode.side) :
          loaded(k) \/ ~refHas(ref, k) \/ length <= SmallTree}
  ELSE IF Len(ref) = 0 \/ mode.left = 0 THEN {}
  ELSE IF mode.kind = "drainMin" THEN {ref[1].key}
  ELSE IF mode.kind = "drainMax" THEN {ref[Len(ref)].key}
  ELSE {}

QueryKeys ==
  IF mode.kind = "window" THEN {mode.center - 1, mode.center, mode.center + 1}
  ELSE IF Len(ref) = 0 THEN {0}
  ELSE {ref[1].key - 1, ref[Len(ref)].key + 1}

AliasKeys == IF mode.kind = "window" THEN {mode.center} ELSE {0}

\* the least and the greatest stored key
EdgeKeys == IF Len(ref) = 0 THEN {} ELSE {ref[1].key, ref[Len(ref)].key}

\* the limit of a visitor that answers true to every call
Always == 0 - 1
\* a visitor that stops inside a leaf answers true this many times
StopAfter == 1
\* the limits of the visitors: no stop, a stop inside the first leaf visited,
\* a stop at the item after a leaf of maxItems/2 items, and a stop at the
\* item after a subtree of maxItems/2 + 1 such leaves
Limits ==
  {Always, StopAfter, maxItems \div 2,
   ((maxItems \div 2) + 1) * ((maxItems \div 2) + 1) - 1}
\* a traversal from the centre of a window takes every visitor
LimitsAt(k) == IF k \in AliasKeys THEN Limits ELSE {Always}

\* the load stores LoadVal; a call on the centre of a window may store OtherVal
SetValues(k) ==
  IF mode.kind = "window" /\ k = mode.center THEN {LoadVal(k), OtherVal(k)}
  ELSE {LoadVal(k)}

idle == [op |-> "idle"]

\* no call is in progress
free == last = idle

\* the load is over and no call is in progress
ready == mode.kind # "load" /\ free

\* ------------------------------------------------------------------ actions
\* var tr BTree: the zero value
Init ==
  /\ root = emptyTree.root
  /\ height = emptyTree.height
  /\ length = emptyTree.length
  /\ ref = <<>>
  /\ last = idle
  /\ mode \in {loadMode(0, FALSE), loadMode(0, TRUE)}

\* the load loop ends and a run begins
Begin ==
  /\ mode.kind = "load"
  /\ free
  /\ \E r \in Runs :
       /\ r.n = mode.n
       /\ r.desc = (mode.side = "desc")
       /\ mode' = StartMode(r, tree)
  /\ UNCHANGED <<root, height, length, ref, last>>

\* Set(k, v) returned r
SetReturns(k, v, r) ==
  /\ root' = r.tr.root
  /\ height' = r.tr.height
  /\ length' = r.tr.length
  /\ ref' = IF r.panic THEN ref ELSE refPut(ref, k, v)
  /\ last' = [op |-> "Set", key |-> k, value |-> v, prev |-> r.prev,
              replaced |-> r.replaced, panic |-> r.panic]
  /\ mode' = IF mode.kind = "load" THEN [mode EXCEPT !.n = @ + 1] ELSE mode

CallSet ==
  /\ free
  /\ \E k \in SetKeys : \E v \in SetValues(k) : SetReturns(k, v, Set(tree, k, v))

\* Delete(k) returned r
DeleteReturns(k, r) ==
  /\ root' = r.tr.root
  /\ height' = r.tr.height
  /\ length' = r.tr.length
  /\ ref' = IF r.panic THEN ref ELSE refDel(ref, k)
  /\ last' = [op |-> "Delete", key |-> k, prev |-> r.prev,
              deleted |-> r.deleted, panic |-> r.panic]
  /\ mode' = IF mode.kind = "window" THEN mode
             ELSE IF r.tr.length = 0 THEN windowMode(0, 0, "below")
             ELSE [mode EXCEPT !.left = @ - 1]

CallDelete ==
  /\ ready
  /\ \E k \in DeleteKeys : DeleteReturns(k, Delete(tree, k))

\* The queries write no field of the tree.
GetReturns(k, r) ==
  last' = [op |-> "Get", key |-> k, value |-> r.value, gotten |-> r.gotten,
           panic |-> r.panic]

CallGet ==
  /\ ready
  /\ \E k \in QueryKeys : GetReturns(k, Get(tree, k))
  /\ UNCHANGED <<root, height, length, ref, mode>>

CallLen ==
  /\ ready
  /\ last' = [op |-> "Len", len |-> TreeLen(tree)]
  /\ UNCHANGED <<root, height, length, ref, mode>>

\* a traversal without a pivot returned; lim is the limit of its visitor
ScanReturns(op, lim, it) ==
  last' = [op |-> op, limit |-> lim, out |-> it.out, late |-> it.late,
           panic |-> it.panic]

\* a traversal from pivot k returned; lim is the limit of its visitor
WalkReturns(op, k, lim, it) ==
  last' = [op |-> op, key |-> k, limit |-> lim, out |-> it.out, late |-> it.late,
           panic |-> it.panic]

CallScan ==
  /\ ready
  /\ \E lim \in Limits : ScanReturns("Scan", lim, Scan(tree, visitor(lim)))
  /\ UNCHANGED <<root, height, length, ref, mode>>

CallReverse ==
  /\ ready
  /\ \E lim \in Limits : ScanReturns("Reverse", lim, Reverse(tree, visitor(lim)))
  /\ UNCHANGED <<root, height, length, ref, mode>>

CallAscend ==
  /\ ready
  /\ \E k \in QueryKeys : \E lim \in LimitsAt(k) :
       WalkReturns("Ascend", k, lim, Ascend(tree, k, visitor(lim)))
  /\ UNCHANGED <<root, height, length, ref, mode>>

CallGreaterOrEqual ==
  /\ ready
  /\ \E k \in AliasKeys :
       WalkReturns("GreaterOrEqual", k, Always, GreaterOrEqual(tree, k, visitor(Always)))
  /\ UNCHANGED <<root, height, length, ref, mode>>

CallDescend ==
  /\ ready
  /\ \E k \in QueryKeys : \E lim \in LimitsAt(k) :
       WalkReturns("Descend", k, lim, Descend(tree, k, visitor(lim)))
  /\ UNCHANGED <<root, height, length, ref, mode>>

CallLessOrEqual ==
  /\ ready
  /\ \E k \in AliasKeys :
       WalkReturns("LessOrEqual", k, Always, LessOrEqual(tree, k, visitor(Always)))
  /\ UNCHANGED <<root, height, length, ref, mode>>

GetOrNearestReturns(k, r) ==
  last' = [op |-> "GetOrNearest", key |-> k, nKey |-> r.key, nValue |-> r.value,
           panic |-> r.panic]

CallGetOrNearest ==
  /\ ready
  /\ \E k \in QueryKeys : GetOrNearestReturns(k, GetOrNearest(tree, k))
  /\ UNCHANGED <<root, height, length, ref, mode>>

\* Next or Prev of pivot k returned r
StepReturns(op, k, r) ==
  last' = [op |-> op, key |-> k, nKey |-> r.key, nValue |-> r.value,
           panic |-> r.panic]

CallNext ==
  /\ ready
  /\ \E k \in QueryKeys \cup EdgeKeys : StepReturns("Next", k, TreeNext(tree, k))
  /\ UNCHANGED <<root, height, length, ref, mode>>

CallPrev ==
  /\ ready
  /\ \E k \in QueryKeys \cup EdgeKeys : StepReturns("Prev", k, TreePrev(tree, k))
  /\ UNCHANGED <<root, height, length, ref, mode>>

\* the caller drops the result of the call it made
Return ==
  /\ last # idle
  /\ last' = idle
  /\ UNCHANGED <<root, height, length, ref, mode>>

Next ==
  \/ Begin
  \/ CallSet
  \/ CallDelete
  \/ CallGet
  \/ CallLen
  \/ CallScan
  \/ CallReverse
  \/ CallAscend
  \/ CallGreaterOrEqual
  \/ CallDescend
  \/ CallLessOrEqual
  \/ CallGetOrNearest
  \/ CallNext
  \/ CallPrev
  \/ Return

Spec == Init /\ [][Next]_vars

\* ------------------------------------------------------------------ properties
\* the keys of the items of node n
keysOf(n) == {At(n.items, j).key : j \in 0..(n.numItems - 1)}

\* k is a key of the root node
inRoot(k) == root # NilNode /\ k \in keysOf(root)

\* the keys of a list of visited items rise, or fall, strictly
increasing(out) == \A j \in 1..(Len(out) - 1) : out[j].key < out[j + 1].key
decreasing(out) == \A j \in 1..(Len(out) - 1) : out[j].key > out[j + 1].key

\* the items of the reference map from key p on, and up to key p
refFrom(r, p) == SelectSeq(r, LAMBDA it : it.key >= p)
refUpTo(r, p) == SelectSeq(r, LAMBDA it : it.key <= p)

\* the reference map holds a key <= q
hasFloor(r, q) == Len(refUpTo(r, q)) > 0
\* the item of the greatest key <= q
floorItem(r, q) == refUpTo(r, q)[Len(refUpTo(r, q))]

\* keys to look up in any state: the keys a query may take, the keys of the
\* window, and the least, the middle and the greatest stored key
ProbeKeys ==
  QueryKeys
  \cup (IF mode.kind = "window" THEN Window(mode.center, mode.side) ELSE {})
  \cup {ref[j].key : j \in {1, (Len(ref) + 1) \div 2, Len(ref)} \cap (1..Len(ref))}

\* what Get returns for k when it agrees with the reference map
refAnswer(k) == [value |-> refGet(ref, k), gotten |-> refHas(ref, k), panic |-> FALSE]

\* C1: in every state reached from the empty tree by Set and Delete calls,
\* Get(k) returns (v, true) exactly when the reference map holds v for k, and
\* (nil, false) when it holds nothing for k; so does every call of Get made.
C1_GetAgreesWithMap ==
  /\ \A k \in ProbeKeys : Get(tree, k) = refAnswer(k)
  /\ last.op = "Get" =>
       [value |-> last.value, gotten |-> last.gotten, panic |-> last.panic]
         = refAnswer(last.key)

\* C1 happens: at height 2, Get found the value a replacing Set stored for a
\* key while the keys beside it had been deleted
C1_Witness ==
  /\ last.op = "Get"
  /\ height = 2
  /\ last.gotten
  /\ last.value = OtherVal(last.key)
  /\ Len(ref) < mode.n

\* C2: a full Scan visits every stored key once, in strictly increasing order;
\* a full Reverse visits them in strictly decreasing order, and its sequence
\* is the sequence of Scan reversed.
C2_ScanAndReverseOrder ==
  /\ last.op = "Scan" /\ last.limit = Always =>
       ~last.panic /\ increasing(last.out) /\ last.out = ref
  /\ last.op = "Reverse" /\ last.limit = Always =>
       /\ ~last.panic
       /\ decreasing(last.out)
       /\ last.out = refRev(Scan(tree, visitor(Always)).out)
       /\ last.out = refRev(ref)

\* C2 happens: a Reverse over a tree of height 2 that Set and Delete changed
\* after the load
C2_Witness ==
  /\ last.op = "Reverse"
  /\ last.limit = Always
  /\ height = 2
  /\ Len(last.out) > maxItems
  /\ ref # refLoaded(mode.n)

\* C3: Len() is the number of keys stored, which is the number of items a full
\* Scan visits, after every operation; a Set that replaces a value leaves
\* Len() as it was.
C3_LenCountsKeys ==
  /\ [](/\ TreeLen(tree) = Len(ref)
        /\ last.op = "Len" => last.len = Len(ref)
        /\ last.op = "Scan" /\ last.limit = Always => Len(last.out) = TreeLen(tree))
  /\ [][last'.op = "Set" /\ last'.replaced => TreeLen(tree)' = TreeLen(tree)]_vars

\* C3 happens: Len was called on a tree of height 1 some of whose loaded keys
\* are deleted and which holds keys the load did not store
C3_Witness ==
  /\ last.op = "Len"
  /\ height = 1
  /\ last.len > 0
  /\ \E j \in 1..Len(ref) : ~loaded(ref[j].key)
  /\ \E k \in Window(mode.center, mode.side) : loaded(k) /\ ~refHas(ref, k)

\* C4: Set(k, v) returns (nil, false) when k is not in the tree before the
\* call, and (old, true) when k is mapped to old before the call, in a leaf or
\* in an internal node.
C4_SetReturns ==
  [][last'.op = "Set" =>
       /\ ~last'.panic
       /\ last'.replaced = refHas(ref, last'.key)
       /\ last'.prev = refGet(ref, last'.key)]_vars

\* C4 happens: at height 2 a Set replaced the value of a key of the root node
\* and returned the value an earlier replacing Set had stored
C4_Witness ==
  /\ last.op = "Set"
  /\ height = 2
  /\ inRoot(last.key)
  /\ last.replaced
  /\ last.prev = OtherVal(last.key)
  /\ last.value = LoadVal(last.key)

\* C5: Delete(k) for a key k in the tree returns (the value stored for k,
\* true), also when k is in an internal node, and removes only k: the tree
\* then holds every other key with its value.
C5_DeletePresent ==
  /\ [][last'.op = "Delete" /\ refHas(ref, last'.key) =>
          /\ ~last'.panic
          /\ last'.deleted
          /\ last'.prev = refGet(ref, last'.key)
          /\ ref' = refDel(ref, last'.key)
          /\ TreeLen(tree)' = TreeLen(tree) - 1]_vars
  /\ [](last.op = "Delete" =>
          /\ Scan(tree, visitor(Always)).out = ref
          /\ \A k \in ProbeKeys : Get(tree, k) = refAnswer(k))

\* C5 happens: at height 2 Delete removed the key the root node held, whose
\* predecessor is now the key of the root node
C5_Witness ==
  /\ last.op = "Delete"
  /\ height = 2
  /\ mode.kind = "window"
  /\ last.key = mode.center
  /\ last.deleted
  /\ At(root.items, 0).key < mode.center
  /\ last.prev = OtherVal(last.key)

\* C6: Delete(k) for a key k not in the tree, the empty tree included, returns
\* (nil, false) and changes nothing: length, height, and every node with its
\* keys and values are as before.
C6_DeleteAbsent ==
  [][last'.op = "Delete" /\ ~refHas(ref, last'.key) =>
       /\ ~last'.panic
       /\ ~last'.deleted
       /\ last'.prev = NilValue
       /\ tree' = tree]_vars

\* C6 happens: a Delete of a key that is not stored, on a tree of height 2
\* whose root holds a smaller and a greater key below it
C6_Witness ==
  /\ last.op = "Delete"
  /\ ~last.deleted
  /\ height = 2
  /\ ~refHas(ref, last.key)
  /\ ref[1].key < last.key
  /\ last.key < ref[Len(ref)].key

\* C7: whenever some stored key is <= q, GetOrNearest(q) returns the greatest
\* stored key <= q with its value (q itself when q is stored), for a tree of
\* any height.
C7_FloorAtEveryHeight ==
  last.op = "GetOrNearest" /\ hasFloor(ref, last.key) =>
    /\ ~last.panic
    /\ last.nKey = floorItem(ref, last.key).key
    /\ last.nValue = floorItem(ref, last.key).value

\* C8: when no stored key is <= q (the empty tree, or every stored key above
\* q), GetOrNearest(q) returns normally with key 0 and the nil value, for a
\* tree of any height, a root that is a leaf included.
C8_NoFloorReturnsZero ==
  last.op = "GetOrNearest" /\ ~hasFloor(ref, last.key) =>
    /\ ~last.panic
    /\ last.nKey = 0
    /\ last.nValue = NilValue

\* C9: Ascend(pivot) and GreaterOrEqual(pivot), with a visitor that always
\* answers true, visit the stored keys >= pivot and no other, each once, in
\* ascending order: all keys for a pivot below the least key, none for an
\* empty tree or a pivot above the greatest key.
C9_AscendFromPivot ==
  last.op \in {"Ascend", "GreaterOrEqual"} /\ last.limit = Always =>
    /\ ~last.panic
    /\ increasing(last.out)
    /\ last.out = refFrom(ref, last.key)

\* C9 happens: at height 2 Ascend started at a stored pivot, visited it first,
\* and left the keys below it out
C9_Witness ==
  /\ last.op = "Ascend"
  /\ last.limit = Always
  /\ height = 2
  /\ Len(last.out) > maxItems
  /\ last.out[1].key = last.key
  /\ Len(last.out) < Len(ref)

\* C10: Descend(pivot) and LessOrEqual(pivot), with a visitor that always
\* answers true, visit the stored keys <= pivot and no other, each once, in
\* descending order: none for an empty tree or a pivot below the least key.
C10_DescendFromPivot ==
  last.op \in {"Descend", "LessOrEqual"} /\ last.limit = Always =>
    /\ ~last.panic
    /\ decreasing(last.out)
    /\ last.out = refRev(refUpTo(ref, last.key))

\* C10 happens: at height 2 LessOrEqual started at a stored pivot, visited it
\* first, and left the keys above it out
C10_Witness ==
  /\ last.op = "LessOrEqual"
  /\ last.limit = Always
  /\ height = 2
  /\ Len(last.out) > maxItems
  /\ last.out[1].key = last.key
  /\ Len(last.out) < Len(ref)

\* the first n items of a sequence, or all of it
prefix(seq, n) == SubSeq(seq, 1, Min2(n, Len(seq)))

\* the items a traversal visits when its visitor always answers true
fullWalk(l) ==
  IF l.op = "Scan" THEN ref
  ELSE IF l.op = "Reverse" THEN refRev(ref)
  ELSE IF l.op = "Ascend" THEN refFrom(ref, l.key)
  ELSE refRev(refUpTo(ref, l.key))

\* C11: in Scan, Reverse, Ascend and Descend the visitor is not called again
\* once it answered false, at whatever depth the stop happens, and the items
\* it received, the one it stopped at included, are the first items of the
\* full sequence of that traversal.
C11_StopIsFinal ==
  last.op \in {"Scan", "Reverse", "Ascend", "Descend"} /\ last.limit # Always =>
    /\ ~last.panic
    /\ last.late = 0
    /\ last.out = prefix(fullWalk(last), last.limit + 1)

\* C11 happens: at height 2 a Reverse was stopped inside the first leaf it
\* walked, two levels below the root, with most of the tree not visited
C11_Witness ==
  /\ last.op = "Reverse"
  /\ last.limit = StopAfter
  /\ height = 2
  /\ Len(last.out) = StopAfter + 1
  /\ Len(last.out) < Len(ref)

\* the second item of a sequence of items as a result of Next or Prev, or
\* key 0 and the nil value when there is none
secondOf(seq) ==
  IF Len(seq) >= 2 THEN nearest(seq[2].key, seq[2].value, FALSE)
  ELSE nearest(0, NilValue, FALSE)

\* what Next or Prev returned
stepResult(l) == nearest(l.nKey, l.nValue, l.panic)

\* C12: for a pivot that is a stored key, Next(pivot) returns the least stored
\* key above pivot with its value and Prev(pivot) the greatest stored key
\* below pivot with its value; when there is no such key they return key 0
\* and the nil value.
C12_NextPrevOfStoredPivot ==
  /\ last.op = "Next" /\ refHas(ref, last.key) =>
       stepResult(last) = secondOf(refFrom(ref, last.key))
  /\ last.op = "Prev" /\ refHas(ref, last.key) =>
       stepResult(last) = secondOf(refRev(refUpTo(ref, last.key)))

\* C12 happens: at height 2 Prev of the key of the root node returned the key
\* before it, which is in a leaf
C12_Witness ==
  /\ last.op = "Prev"
  /\ height = 2
  /\ inRoot(last.key)
  /\ last.nKey < last.key
  /\ refHas(ref, last.nKey)
  /\ ~inRoot(last.nKey)

\* C13: whenever Set and Delete calls have removed the last stored key, the
\* tree is in the empty state, no root, height 0 and length 0, which is the
\* state of a fresh tree; a Set then fills it as it fills a fresh tree.
C13_EmptiedTreeIsFresh ==
  /\ [](Len(ref) = 0 => tree = emptyTree)
  /\ [][last'.op = "Delete" /\ last'.deleted /\ Len(ref) = 1 =>
          tree' = emptyTree /\ TreeLen(tree)' = 0]_vars
  /\ [][last'.op = "Set" /\ Len(ref) = 0 =>
          /\ tree' = Set(emptyTree, last'.key, last'.value).tr
          /\ ~last'.replaced
          /\ last'.prev = NilValue]_vars

\* C13 happens: a Delete removed the last key of a tree that a load had
\* raised above height 0, and left no root
C13_Witness ==
  /\ last.op = "Delete"
  /\ last.deleted
  /\ last.key >= Stride * maxItems
  /\ root = NilNode
  /\ height = 0
  /\ length = 0

\* C14: the zero value of BTree is an empty tree as it stands: Len() is 0, Get
\* and Delete of any key return (nil, false), and Scan, Reverse, Ascend and
\* Descend never call their visitor.
C14_ZeroValueIsEmpty ==
  tree = emptyTree =>
    /\ TreeLen(tree) = 0
    /\ Scan(tree, visitor(Always)) = visitor(Always)
    /\ Reverse(tree, visitor(Always)) = visitor(Always)
    /\ \A k \in ProbeKeys :
         /\ Get(tree, k) = [value |-> NilValue, gotten |-> FALSE, panic |-> FALSE]
         /\ Delete(tree, k) = deleteReturn(emptyTree, NilValue, FALSE, FALSE)
         /\ Ascend(tree, k, visitor(Always)) = visitor(Always)
         /\ Descend(tree, k, visitor(Always)) = visitor(Always)
    /\ last.op = "Len" => last.len = 0
    /\ last.op = "Get" => ~last.gotten /\ last.value = NilValue /\ ~last.panic
    /\ last.op \in {"Scan", "Reverse", "Ascend", "Descend"} =>
         last.out = <<>> /\ ~last.panic

\* C14 happens: Scan was called on the zero value, which no Set has touched,
\* and its visitor received nothing
C14_Witness ==
  /\ last.op = "Scan"
  /\ tree = emptyTree
  /\ last.out = <<>>
  /\ mode.n = 0

\* every node of the subtree n, h levels above the leaves, has minItems items
\* or more
RECURSIVE atLeastMin(_, _)
atLeastMin(n, h) ==
  /\ n.numItems >= minItems
  /\ h > 0 => \A j \in 0..n.numItems : atLeastMin(At(n.children, j), h - 1)

\* C15: after every Set and every Delete, every node other than the root holds
\* minItems (= maxItems*40/100) items or more: no borrow leaves its donor and
\* no merge leaves any node below minItems.
C15_NonRootAtLeastMin ==
  root # NilNode /\ height > 0 =>
    \A j \in 0..root.numItems : atLeastMin(At(root.children, j), height - 1)

\* C15 happens: a Delete has removed a key from a tree of height 2 and left an
\* inner node other than the root with exactly minItems items, a count inner
\* nodes only come down to through merges and borrows
C15_Witness ==
  /\ last.op = "Delete"
  /\ last.deleted
  /\ height = 2
  /\ \E j \in 0..root.numItems : At(root.children, j).numItems = minItems

\* the depths, counted from depth d of node n, of the leaves below n: a leaf is
\* a node without a first child, and an absent child counts as depth -1
RECURSIVE leafDepths(_, _)
leafDepths(n, d) ==
  IF n = NilNode THEN {0 - 1}
  ELSE IF At(n.children, 0) = NilNode THEN {d}
  ELSE UNION {leafDepths(At(n.children, j), d + 1) : j \in 0..n.numItems}

\* C16: after every Set and every Delete all leaves are at one depth, the
\* tree's height field, which is 0 when the root is a leaf (or absent).
C16_LeavesAtHeight ==
  IF root = NilNode THEN height = 0 ELSE leafDepths(root, 0) = {height}

\* C16 happens: a Delete has removed a key of a tree that was loaded to two
\* levels of children and has one level left, its root a node with children
C16_Witness ==
  /\ last.op = "Delete"
  /\ last.deleted
  /\ mode.n = TwoLevels
  /\ height = 1
  /\ leafDepths(root, 0) = {1}

\* the keys of the subtree n, h levels above the leaves
RECURSIVE subtreeKeys(_, _)
subtreeKeys(n, h) ==
  keysOf(n) \cup
    IF h > 0
    THEN UNION {subtreeKeys(At(n.children, j), h - 1) : j \in 0..n.numItems}
    ELSE {}

\* the number of items of the subtree n, h levels above the leaves
RECURSIVE countItems(_, _, _)
countItems(n, h, j) ==
  IF j > n.numItems THEN n.numItems
  ELSE IF h = 0 THEN n.numItems
  ELSE countItems(At(n.children, j), h - 1, 0) + countItems(n, h, j + 1)

\* in every node of the subtree n the keys rise strictly, and each key lies
\* above all keys of the child before it and below all keys of the child after
RECURSIVE ordered(_, _)
ordered(n, h) ==
  /\ \A j \in 0..(n.numItems - 2) : At(n.items, j).key < At(n.items, j + 1).key
  /\ h > 0 =>
       /\ \A j \in 0..(n.numItems - 1) :
            /\ \A k \in subtreeKeys(At(n.children, j), h - 1) : k < At(n.items, j).key
            /\ \A k \in subtreeKeys(At(n.children, j + 1), h - 1) : At(n.items, j).key < k
       /\ \A j \in 0..n.numItems : ordered(At(n.children, j), h - 1)

\* C17: after every Set and every Delete the keys inside every node are
\* strictly increasing, every key of the subtree children[i] is less than
\* items[i].key, which is less than every key of the subtree children[i+1],
\* and no key occurs twice in the tree.
C17_KeysOrdered ==
  root # NilNode =>
    /\ ordered(root, height)
    /\ countItems(root, height, 0) = Cardinality(subtreeKeys(root, height))

\* C17 happens: a Set has just put a new key between the keys of a tree of
\* height 2, which holds that key among those of its ordered nodes
C17_Witness ==
  /\ last.op = "Set"
  /\ ~last.replaced
  /\ mode.kind = "window"
  /\ height = 2
  /\ last.key \in subtreeKeys(root, height)
  /\ ordered(root, height)

\* every node of the subtree n that is h > 0 levels above the leaves has a
\* child at each index 0..numItems
RECURSIVE allPresent(_, _)
allPresent(n, h) ==
  h > 0 =>
    \A j \in 0..n.numItems :
      /\ At(n.children, j) # NilNode
      /\ allPresent(At(n.children, j), h - 1)

\* every node of the subtree n that is h > 0 levels above the leaves has no
\* child reference beyond index numItems
RECURSIVE noneBeyond(_, _)
noneBeyond(n, h) ==
  h > 0 =>
    /\ \A j \in (n.numItems + 1)..maxItems : At(n.children, j) = NilNode
    /\ \A j \in 0..n.numItems : noneBeyond(At(n.children, j), h - 1)

\* the calls that descend from the root
Descents ==
  {"Set", "Delete", "Get", "Scan", "Reverse", "Ascend", "Descend",
   "GreaterOrEqual", "LessOrEqual", "Next", "Prev", "GetOrNearest"}

\* C18: after every Set and every Delete every node above leaf level has a
\* child at each index 0..numItems and none beyond it, exactly one more child
\* than items, and no descent or traversal, GetOrNearest included, follows an
\* absent child reference.
C18_ChildrenExactAndFollowed ==
  /\ root # NilNode => allPresent(root, height) /\ noneBeyond(root, height)
  /\ last.op \in Descents => ~last.panic

\* the branch n as Delete(key) has it at line 237: the child it went into has
\* done its own delete (and given its greatest item for the key, if the key
\* was an item of n), and no children of n are rebalanced yet
beforeRebalance(n, key, h) ==
  LET f == find(n, key)
      d == delete(At(n.children, f.index), f.found,
                  IF f.found THEN freeKey ELSE key, h - 1)
  IN [n EXCEPT !.children[f.index + 1] = d.node,
               !.items[f.index + 1] = IF f.found THEN d.prev ELSE @]

\* branch a comes from branch b by a merge or a borrow within the children at
\* p and p + 1: both have changed, the children before them are those of b,
\* and the children after them are those of b, one place down after a merge
pairUsed(b, a, p) ==
  /\ a.numItems \in {b.numItems, b.numItems - 1}
  /\ \A j \in 0..(p - 1) : At(a.children, j) = At(b.children, j)
  /\ \A j \in (p + 2)..b.numItems :
       At(a.children, j - (b.numItems - a.numItems)) = At(b.children, j)
  /\ At(a.children, p) # At(b.children, p)
  /\ a.numItems = b.numItems => At(a.children, p + 1) # At(b.children, p + 1)
  /\ a.numItems < b.numItems =>
       At(a.children, p).numItems =
         At(b.children, p).numItems + At(b.children, p + 1).numItems + 1

\* Delete(key) has left the child of the root it went into, at index i0, with
\* fewer than minItems items
rootChildUnderflows(key, i0) ==
  /\ root # NilNode
  /\ height >= 1
  /\ find(root, key).index = i0
  /\ delete(root, FALSE, key, height).deleted
  /\ At(beforeRebalance(root, key, height).children, i0).numItems < minItems

\* C19, as amended: when a non-root child underflows after a deletion, the
\* pair rebalanced is that child and its right sibling, the child after it,
\* except when the underflowing child is the last child: then the pair is the
\* child before it and the underflowing child. (Seen at the root, when the
\* root stays the root.)
C19_PairWithRightSibling ==
  [][\A i0 \in 0..maxItems :
       /\ last'.op = "Delete"
       /\ rootChildUnderflows(last'.key, i0)
       /\ height' = height
       =>
         pairUsed(beforeRebalance(root, last'.key, height), root',
                  IF i0 = root.numItems THEN i0 - 1 ELSE i0)]_vars

\* C19, as stated: when a non-root child underflows after a deletion, the pair
\* rebalanced is its left sibling and that child, also when it is the last child
\* (the first child, which has no left sibling, is left out).
C19_PairWithLeftSibling ==
  [][\A i0 \in 1..maxItems :
       /\ last'.op = "Delete"
       /\ rootChildUnderflows(last'.key, i0)
       /\ height' = height
       =>
         pairUsed(beforeRebalance(root, last'.key, height), root', i0 - 1)]_vars

\* C19 happens: in a window of keys below the last key of the root, a Delete
\* has left the child before the last with minItems - 1 items, and that child
\* has borrowed from the last child, its right sibling: the root's last key
\* now is a key from above the window
C19_Witness ==
  /\ last.op = "Delete"
  /\ last.deleted
  /\ height = 1
  /\ mode.kind = "window"
  /\ mode.side = "below"
  /\ root.numItems > 1
  /\ At(root.items, root.numItems - 1).key > mode.center
  /\ At(root.children, root.numItems - 1).numItems = minItems

\* the items of node n, in order
itemsOf(n) == [j \in 1..n.numItems |-> n.items[j]]

\* the items of the children of branch n at p and p + 1 and the separator
\* between them, in order
pairItems(n, p) ==
  itemsOf(At(n.children, p)) \o <<At(n.items, p)>> \o itemsOf(At(n.children, p + 1))

\* what the rebalancing of the children of b at p and p + 1, of l and r items,
\* must give: one node m of all their items and the separator when
\* l + r + 1 < maxItems, and otherwise the branch a of as many items as b,
\* where one item has moved through the separator to the node with fewer items
rebalancedAs(b, p, l, r, merged, m, a) ==
  IF l + r + 1 < maxItems
  THEN /\ merged
       /\ m.numItems = l + r + 1
       /\ itemsOf(m) = pairItems(b, p)
  ELSE /\ ~merged
       /\ a.numItems = b.numItems
       /\ pairItems(a, p) = pairItems(b, p)
       /\ At(a.children, p).numItems = (IF l > r THEN l - 1 ELSE l + 1)
       /\ At(a.children, p + 1).numItems = (IF l > r THEN r + 1 ELSE r - 1)

\* Delete has made root a of the tree whose root was b at line 237, with the
\* children at p and p + 1 to rebalance
rootRebalanced(b, p, a, lower) ==
  rebalancedAs(b, p, At(b.children, p).numItems, At(b.children, p + 1).numItems,
               lower \/ a.numItems = b.numItems - 1,
               IF lower THEN a ELSE At(a.children, p), a)

\* C20: when a child underflows, the pair of adjacent children chosen is merged
\* exactly when their item counts plus one are below maxItems, which takes one
\* item from the parent; otherwise one item moves through the parent's
\* separator, from the left node to the right one when the left has strictly
\* more items and from the right to the left otherwise, and the parent keeps
\* its item count. (Seen at the root, which a merge of its only two children
\* replaces by the merged node.)
C20_MergeOrBorrow ==
  [][\A i0 \in 0..maxItems :
       last'.op = "Delete" /\ rootChildUnderflows(last'.key, i0) =>
         /\ root' # NilNode
         /\ height' \in {height, height - 1}
         /\ height' < height <=> root.numItems = 1 /\ root'.numItems > 1
         /\ rootRebalanced(beforeRebalance(root, last'.key, height),
                           IF i0 = root.numItems THEN i0 - 1 ELSE i0,
                           root', height' < height)]_vars

\* C20 happens: a Delete of the least key has left the first leaf of three
\* with minItems - 1 items, and the root now has one item less and a first
\* child of those items, the separator and the items of the second leaf
C20_Witness ==
  /\ last.op = "Delete"
  /\ last.deleted
  /\ mode.kind = "drainMin"
  /\ mode.n = ThreeLeaves
  /\ height = 1
  /\ root.numItems = 1
  /\ At(root.children, 0).numItems = (minItems - 1) + (maxItems \div 2) + 1

\* C21: after every Delete that leaves the tree non-empty the root holds at
\* least one item: where Delete replaced a root without items by its only
\* child, once, the new root has items; and the root is absent only when Len()
\* is 0.
C21_RootHasItems ==
  /\ [](root = NilNode => TreeLen(tree) = 0 /\ Len(ref) = 0)
  /\ [](root # NilNode => root.numItems >= 1)
  /\ [][last'.op = "Delete" /\ Len(ref') > 0 =>
          /\ root' # NilNode
          /\ root'.numItems >= 1
          /\ height' < height =>
               /\ height' = height - 1
               /\ root' = At(delete(root, FALSE, last'.key, height).node.children, 0)
               /\ delete(root, FALSE, last'.key, height).node.numItems = 0]_vars

\* C21 happens: a Delete has left a tree of three leaves, which lost all but
\* some of its keys, with one leaf as its root, and the root has items
C21_Witness ==
  /\ last.op = "Delete"
  /\ last.deleted
  /\ mode.n = ThreeLeaves
  /\ height = 0
  /\ root # NilNode
  /\ root.numItems >= 1
  /\ TreeLen(tree) > 0

\* Set(key, value) brings the root to maxItems items (line 57)
rootFills(key, value) ==
  /\ root # NilNode
  /\ ~set(root, key, value, height).replaced
  /\ set(root, key, value, height).node.numItems = maxItems

\* Delete(key) leaves a root with children without items (line 187)
rootRunsOut(key) ==
  /\ root # NilNode
  /\ height > 0
  /\ delete(root, FALSE, key, height).deleted
  /\ delete(root, FALSE, key, height).node.numItems = 0

\* C22: the height changes by at most one per operation: a Set raises it by
\* one exactly when the root reaches maxItems items, and then the root is split
\* under a new root of one item; a Delete lowers it by one exactly when a root
\* with children is left without items; every other call leaves it as it is.
C22_HeightStepsByOne ==
  [][/\ height' \in {height - 1, height, height + 1}
     /\ height' = height + 1 <=>
          last'.op = "Set" /\ rootFills(last'.key, last'.value)
     /\ height' = height + 1 =>
          /\ root'.numItems = 1
          /\ At(root'.children, 0).numItems = maxItems \div 2
          /\ At(root'.children, 1).numItems = maxItems \div 2
          /\ At(root'.items, 0) =
               At(set(root, last'.key, last'.value, height).node.items, maxItems \div 2)
     /\ height' = height - 1 <=>
          last'.op = "Delete" /\ rootRunsOut(last'.key)]_vars

\* C22 happens: a Set has just split a root with children under a new root of
\* one item, at height 2
C22_Witness ==
  /\ last.op = "Set"
  /\ ~last.replaced
  /\ height = 2
  /\ root.numItems = 1
  /\ At(root.children, 0).numItems = maxItems \div 2
  /\ At(root.children, 1).numItems = maxItems \div 2

\* C23: Set and Delete are total on every reachable tree and every key (the
\* reserved key apart): leaf insertion, child split, merge and borrow index no
\* item slot outside 0..maxItems-1 and no child slot outside 0..maxItems, and
\* they dereference no absent child; the calls made, and the calls that can be
\* made next, return without a panic.
C23_SetAndDeleteTotal ==
  /\ last.op \in {"Set", "Delete"} => ~last.panic
  /\ \A k \in ProbeKeys :
       /\ ~Set(tree, k, LoadVal(k)).panic
       /\ ~Delete(tree, k).panic

\* C23 happens: a Delete has merged two leaves under a root of maxItems - 1
\* items, where the merge clears items[maxItems-1] and children[maxItems] of
\* the root, the last slots there are
C23_Witness ==
  /\ last.op = "Delete"
  /\ last.deleted
  /\ ~last.panic
  /\ mode.n = FullRoot
  /\ height = 1
  /\ root.numItems = maxItems - 2
  /\ At(root.children, 0).numItems = (minItems - 1) + (maxItems \div 2) + 1

\* every node of the subtree n, h levels above the leaves, has fewer than
\* maxItems items
RECURSIVE belowMax(_, _)
belowMax(n, h) ==
  /\ n.numItems < maxItems
  /\ h > 0 => \A j \in 0..n.numItems : belowMax(At(n.children, j), h - 1)

\* C24: between operations no node holds maxItems items: Set splits a node
\* that reaches maxItems before it returns, and a merge is made only of nodes
\* that end with fewer than maxItems items together, so every node of the tree
\* holds at most maxItems - 1 items.
C24_NoFullNode ==
  root # NilNode => belowMax(root, height)

\* C24 happens: a Set has left the root and its last leaf with maxItems - 1
\* items each, one short of a split
C24_Witness ==
  /\ last.op = "Set"
  /\ ~last.replaced
  /\ height = 1
  /\ root.numItems = maxItems - 1
  /\ At(root.children, root.numItems).numItems = maxItems - 1

\* the subtree a, h levels above the leaves, is the subtree b but for the
\* value of key: the same item counts, keys and children in every node, and
\* the same values of the other keys
RECURSIVE sameButValueOf(_, _, _, _)
sameButValueOf(a, b, h, key) ==
  \/ a = b
  \/ /\ a.numItems = b.numItems
     /\ \A j \in 0..(maxItems - 1) :
          /\ At(a.items, j).key = At(b.items, j).key
          /\ \/ At(a.items, j).value = At(b.items, j).value
             \/ j < b.numItems /\ At(b.items, j).key = key
     /\ IF h = 0 THEN a.children = b.children
        ELSE \A j \in 0..b.numItems :
               sameButValueOf(At(a.children, j), At(b.children, j), h - 1, key)

\* Set(key, value) on the tree, where key is stored, returns r: it has
\* replaced the value of key and nothing else
replacedOnly(r, key, value) ==
  /\ r.replaced
  /\ ~r.panic
  /\ r.prev = refGet(ref, key)
  /\ r.tr.height = height
  /\ r.tr.length = length
  /\ sameButValueOf(r.tr.root, root, height, key)
  /\ get(r.tr.root, key, height).value = value

\* C25: a Set on a key that is stored changes only that key's value: the
\* nodes, every node's item count, the height, Len() and all other keys and
\* values are as before, and no node is split. It holds of the Sets made and
\* of a Set of a second value to the least, the middle and the greatest key.
C25_ReplaceChangesValueOnly ==
  /\ [][last'.op = "Set" /\ refHas(ref, last'.key) =>
          /\ last'.replaced
          /\ height' = height
          /\ length' = length
          /\ sameButValueOf(root', root, height, last'.key)
          /\ get(root', last'.key, height').value = last'.value]_vars
  /\ [](\A j \in {1, (Len(ref) + 1) \div 2, Len(ref)} \cap (1..Len(ref)) :
          replacedOnly(Set(tree, ref[j].key, OtherVal(ref[j].key)),
                       ref[j].key, OtherVal(ref[j].key)))

\* C25 happens: a Set has replaced the value of a key of the root of a tree of
\* height 2 by a second value
C25_Witness ==
  /\ last.op = "Set"
  /\ last.replaced
  /\ height = 2
  /\ inRoot(last.key)
  /\ last.value = OtherVal(last.key)
  /\ last.prev = LoadVal(last.key)
  /\ Get(tree, last.key).value = last.value

\* the item of the reference map next below the stored key k
refBefore(k) == ref[refRank(ref, k)]

\* the index in node n of its key k
slotOf(n, k) == CHOOSE j \in 0..(n.numItems - 1) : At(n.items, j).key = k

\* d is what the call delete(true, freeKey, h) on the subtree c returns: it
\* has removed an item, the one with the greatest key of c, with its value
greatestRemoved(c, h, d) ==
  /\ ~d.panic
  /\ d.deleted
  /\ d.prev.key \in subtreeKeys(c, h)
  /\ \A k \in subtreeKeys(c, h) : k <= d.prev.key
  /\ d.prev.value = refGet(ref, d.prev.key)
  /\ subtreeKeys(d.node, h) = subtreeKeys(c, h) \ {d.prev.key}

\* for the first and the last item of branch n, h levels above the leaves, the
\* extract-maximum call on the child left of the item removes the greatest item
extractsGreatest(n, h) ==
  \A i \in {0, n.numItems - 1} :
    greatestRemoved(At(n.children, i), h - 1,
                    delete(At(n.children, i), TRUE, freeKey, h - 1))

\* C26: whenever Delete finds its key in a node with children, the
\* extract-maximum call on the child left of that item removes an item (the
\* flag the code ignores is true), and the item put in the key's slot is the
\* one with the greatest key of that child's subtree, with its value. (It is
\* seen in the slot after the call where the child had items to spare, so that
\* no merge or borrow moved it on.)
C26_ExtractMaxSucceeds ==
  /\ [](root # NilNode /\ height >= 1 =>
          /\ extractsGreatest(root, height)
          /\ height = 2 =>
               \A j \in {0, root.numItems} : extractsGreatest(At(root.children, j), 1))
  /\ [][last'.op = "Delete" /\ height >= 1 /\ inRoot(last'.key) =>
          /\ last'.deleted
          /\ greatestRemoved(At(root.children, slotOf(root, last'.key)), height - 1,
                             delete(At(root.children, slotOf(root, last'.key)),
                                    TRUE, freeKey, height - 1))
          /\ get(root', refBefore(last'.key).key, height') =
               [value |-> refBefore(last'.key).value, gotten |-> TRUE, panic |-> FALSE]
          /\ At(root.children, slotOf(root, last'.key)).numItems > minItems =>
               At(root'.items, slotOf(root, last'.key)) = refBefore(last'.key)]_vars

\* C26 happens: a Delete has taken the key at the centre of a window out of
\* the root of a tree of height 2, and the root holds the key next below it
C26_Witness ==
  /\ last.op = "Delete"
  /\ last.deleted
  /\ height = 2
  /\ mode.kind = "window"
  /\ last.key = mode.center
  /\ inRoot(mode.center - Stride)

\* l, m and r are the two halves and the median of the node full of maxItems
\* items, h levels above the leaves: m is the item at maxItems/2, l has the
\* items and children before it and r those after it, maxItems/2 items each,
\* and the slots of l and r beyond them are empty
halves(full, l, m, r, h) ==
  /\ full.numItems = maxItems
  /\ m = At(full.items, maxItems \div 2)
  /\ l.numItems = maxItems \div 2
  /\ r.numItems = maxItems \div 2
  /\ \A j \in 0..((maxItems \div 2) - 1) :
       /\ At(l.items, j) = At(full.items, j)
       /\ At(r.items, j) = At(full.items, (maxItems \div 2) + 1 + j)
  /\ \A j \in (maxItems \div 2)..(maxItems - 1) :
       At(l.items, j) = zeroItem /\ At(r.items, j) = zeroItem
  /\ IF h > 0
     THEN /\ \A j \in 0..(maxItems \div 2) :
               /\ At(l.children, j) = At(full.children, j)
               /\ At(r.children, j) = At(full.children, (maxItems \div 2) + 1 + j)
               /\ At(l.children, j) # NilNode
               /\ At(r.children, j) # NilNode
          /\ \A j \in ((maxItems \div 2) + 1)..maxItems :
               At(l.children, j) = NilNode /\ At(r.children, j) = NilNode
     ELSE \A j \in 0..maxItems :
            At(l.children, j) = NilNode /\ At(r.children, j) = NilNode

\* Set(key, value) brings the child of the root it goes into, at index i, to
\* maxItems items, and the root takes the median without filling up
childFills(key, value, i) ==
  /\ root # NilNode
  /\ height >= 1
  /\ ~find(root, key).found
  /\ find(root, key).index = i
  /\ ~set(At(root.children, i), key, value, height - 1).replaced
  /\ set(At(root.children, i), key, value, height - 1).node.numItems = maxItems
  /\ root.numItems < maxItems - 1

\* C27: the split of a node of maxItems items promotes the item at index
\* maxItems/2 to the parent, leaves the items (and children) before it in the
\* node and moves those after it to a new right sibling: both halves hold
\* maxItems/2 items, and no item or child is lost or held twice.
C27_SplitHalves ==
  [][last'.op = "Set" =>
       /\ rootFills(last'.key, last'.value) =>
            /\ root'.numItems = 1
            /\ halves(set(root, last'.key, last'.value, height).node,
                      At(root'.children, 0), At(root'.items, 0),
                      At(root'.children, 1), height)
       /\ \A i \in 0..(maxItems - 1) :
            childFills(last'.key, last'.value, i) =>
              /\ root'.numItems = root.numItems + 1
              /\ halves(set(At(root.children, i), last'.key, last'.value,
                            height - 1).node,
                        At(root'.children, i), At(root'.items, i),
                        At(root'.children, i + 1), height - 1)
              /\ \A j \in 0..(i - 1) : At(root'.items, j) = At(root.items, j)
              /\ \A j \in i..(root.numItems - 1) :
                   At(root'.items, j + 1) = At(root.items, j)]_vars

\* C27 happens: a Set in the window at the last key of a root of
\* maxItems - 1 items has split the last leaf and then the root, whose halves
\* have maxItems/2 items each
C27_Witness ==
  /\ last.op = "Set"
  /\ ~last.replaced
  /\ mode.kind = "window"
  /\ mode.n = FullRoot
  /\ height = 2
  /\ root.numItems = 1
  /\ At(root.children, 0).numItems = maxItems \div 2
  /\ At(root.children, 1).numItems = maxItems \div 2
  /\ At(At(root.children, 1).children, maxItems \div 2).numItems = maxItems \div 2

\* the items of the reference map above key p, and below key p
refAbove(r, p) == SelectSeq(r, LAMBDA it : it.key > p)
refBelow(r, p) == SelectSeq(r, LAMBDA it : it.key < p)

\* C29: when pivot is not a stored key, Next(pivot) does not return the
\* successor of pivot: it passes over the least stored key above pivot and
\* returns the second least (key 0 and nil when fewer than two stored keys are
\* above pivot); Prev(pivot) likewise returns the second greatest stored key
\* below pivot.
C29_NextPrevOfAbsentPivot ==
  /\ last.op = "Next" /\ ~refHas(ref, last.key) =>
       /\ stepResult(last) = secondOf(refAbove(ref, last.key))
       /\ Len(refAbove(ref, last.key)) >= 2 =>
            last.nKey # refAbove(ref, last.key)[1].key
  /\ last.op = "Prev" /\ ~refHas(ref, last.key) =>
       /\ stepResult(last) = secondOf(refRev(refBelow(ref, last.key)))
       /\ Len(refBelow(ref, last.key)) >= 2 =>
            last.nKey # refBelow(ref, last.key)[Len(refBelow(ref, last.key))].key

\* C29 happens: at height 2 Next of a pivot that is not stored has passed over
\* the stored key next above the pivot and returned the one after it
C29_Witness ==
  /\ last.op = "Next"
  /\ ~refHas(ref, last.key)
  /\ height = 2
  /\ refHas(ref, last.nKey)
  /\ \E j \in 1..Len(ref) : last.key < ref[j].key /\ ref[j].key < last.nKey

\* the number of items of node n with a key below k
below(n, k) == Cardinality({j \in 0..(n.numItems - 1) : At(n.items, j).key < k})

\* find(k) on node n returns what it must: the index of k with true when k is
\* a key of n, and otherwise the number of keys of n below k with false
findRight(n, k) ==
  /\ find(n, k).index \in 0..n.numItems
  /\ IF k \in keysOf(n)
     THEN /\ find(n, k).found
          /\ At(n.items, find(n, k).index).key = k
     ELSE /\ ~find(n, k).found
          /\ find(n, k).index = below(n, k)

\* findRight for node n, h levels above the leaves, and for the nodes below it
\* on the way to key k
RECURSIVE findRightTo(_, _, _)
findRightTo(n, k, h) ==
  /\ \A j \in 0..(n.numItems - 2) : At(n.items, j).key < At(n.items, j + 1).key
  /\ findRight(n, k)
  /\ h > 0 /\ k \notin keysOf(n) => findRightTo(At(n.children, below(n, k)), k, h - 1)

\* C30: for a node whose first numItems items are strictly sorted and any key,
\* find returns (i, true) when items[i].key is the key, and otherwise
\* (i, false) with i the number of items with a key below the query, the index
\* of the child to go into or the place of the key in a leaf; i is always in
\* 0..numItems.
C30_FindIndex ==
  root # NilNode => \A k \in ProbeKeys : findRightTo(root, k, height)

\* C30 happens: Get has found, in a leaf of a tree of height 2, a key that no
\* node above the leaf holds; find has sent it into the child with as many
\* keys of the root below the key
C30_Witness ==
  /\ last.op = "Get"
  /\ last.gotten
  /\ height = 2
  /\ ~inRoot(last.key)
  /\ ~find(root, last.key).found
  /\ find(root, last.key).index = below(root, last.key)
  /\ last.key \in subtreeKeys(At(root.children, below(root, last.key)), 1)

\* the least int64, -2^63: the sign bit alone
MinInt64 == [j \in 1..Int64Width |-> IF j = 1 THEN 1 ELSE 0]

\* C31: the reserved key that asks for the greatest item is the least value of
\* the 64-bit signed key type, -2^63, whatever the state of the tree.
C31_SentinelIsMinInt64 ==
  \A tr \in {tree} : freeKey = MinInt64
====
